---- MODULE Spec2Model ----
(***************************************************************************)
(* The log-to-verdict evaluation pipeline of week3/wikiagent/evaluator.py: *)
(* field extraction, the three rule-based checks, the two-table store with *)
(* autocommit statements, and the batch driver main().                     *)
(*                                                                         *)
(* Text is modelled by TLA+ strings (TLC treats them as sequences of       *)
(* characters: Len, SubSeq and \o apply).  Python and JSON values that may *)
(* be None, missing or of several types are tagged records.                *)
(***************************************************************************)
EXTENDS Integers, Sequences, FiniteSets, TLC

(***************************************************************************)
(* Python / JSON values                                                    *)
(***************************************************************************)
\* A key that is not in the dict (dict.get returns its default).
Absent == [t |-> "absent"]
\* Python None, JSON null.
None == [t |-> "None"]
Str(s) == [t |-> "str", v |-> s]
Bool(b) == [t |-> "bool", v |-> b]
IntV(n) == [t |-> "int", v |-> n]
List(q) == [t |-> "list", v |-> q]
RECURSIVE Gcd(_, _)
Gcd(a, b) == IF b = 0 THEN a ELSE Gcd(b, a % b)

\* The float n / d (n >= 0, d > 0), kept as the fraction in lowest terms, so
\* that equal quotients are equal values.
Float(n, d) == [t |-> "float", num |-> n \div Gcd(n, d), den |-> d \div Gcd(n, d)]
\* The WikiAnswer dict of the log: {"answer": ..., "references": ...}.
Dict(a, r) == [t |-> "dict", answer |-> a, references |-> r]

\* dict.get(key, default): the default only when the key is missing.
Get(val, default) == IF val = Absent THEN default ELSE val

\* dict.get(key): None when the key is missing.
Get0(val) == Get(val, None)

\* Truth value of a Python object.
Truthy(x) ==
    CASE x.t = "absent" -> FALSE
      [] x.t = "None" -> FALSE
      [] x.t = "str" -> x.v # ""
      [] x.t = "bool" -> x.v
      [] x.t = "int" -> x.v # 0
      [] x.t = "list" -> x.v # <<>>
      [] x.t = "float" -> x.num # 0
      [] x.t = "dict" -> TRUE

\* x or y
Or(x, y) == IF Truthy(x) THEN x ELSE y

\* str(x) of a value that is not a dict
PyStr(x) ==
    CASE x.t = "str" -> x.v
      [] x.t = "int" -> ToString(x.v)
      [] x.t = "bool" -> IF x.v THEN "True" ELSE "False"
      [] x.t = "None" -> "None"
      [] OTHER -> "<object>"

\* sub in text
Contains(text, sub) ==
    \E i \in 1..(Len(text) - Len(sub) + 1) : SubSeq(text, i, i + Len(sub) - 1) = sub

UpperCase == "ABCDEFGHIJKLMNOPQRSTUVWXYZ"
LowerCase == "abcdefghijklmnopqrstuvwxyz"
Digits == "0123456789"

CharsOf(s) == {SubSeq(s, i, i) : i \in 1..Len(s)}
UpperChars == CharsOf(UpperCase)
WordChars == CharsOf(UpperCase) \cup CharsOf(LowerCase) \cup CharsOf(Digits) \cup {"_"}

\* str.lower() of one character
LowerChar(c) ==
    IF c \in UpperChars
    THEN LET i == CHOOSE j \in 1..Len(UpperCase) : SubSeq(UpperCase, j, j) = c
         IN  SubSeq(LowerCase, i, i)
    ELSE c

\* The characters of s from position i on, lower-cased.
RECURSIVE LowerFrom(_, _)
LowerFrom(s, i) ==
    IF i > Len(s) THEN "" ELSE LowerChar(SubSeq(s, i, i)) \o LowerFrom(s, i + 1)

\* s.lower()
Lower(s) == LowerFrom(s, 1)

\* The character class [A-Za-z0-9_]
IsWordChar(c) == c \in WordChars

\* The scan of re.findall(r"[A-Za-z0-9_]+", s) from position i: start is
\* where the run being read began (0 outside a run), acc the runs closed so far.
RECURSIVE ScanWords(_, _, _, _)
ScanWords(s, i, start, acc) ==
    IF i > Len(s)
    THEN IF start = 0 THEN acc ELSE Append(acc, SubSeq(s, start, Len(s)))
    ELSE IF IsWordChar(SubSeq(s, i, i))
         THEN ScanWords(s, i + 1, IF start = 0 THEN i ELSE start, acc)
         ELSE ScanWords(s, i + 1, 0, IF start = 0 THEN acc ELSE Append(acc, SubSeq(s, start, i - 1)))

\* re.findall(r"[A-Za-z0-9_]+", s): the maximal runs of word characters, in order.
FindAllWords(s) == ScanWords(s, 1, 0, <<>>)

_tokenize(text) == FindAllWords(Lower(text))

Range(q) == {q[i] : i \in 1..Len(q)}

(***************************************************************************)
(* Log parsing helpers                                                     *)
(***************************************************************************)
\* A part of a message: a dict with the keys the evaluator probes.
Part(kind, content, tool_name) ==
    [part_kind |-> kind, content |-> content, tool_name |-> tool_name]
UserPromptPart(content) == Part(Str("user-prompt"), content, Absent)
ToolCallPart(name) == Part(Str("tool-call"), Absent, name)
Msg(parts) == [parts |-> parts]

\* msg.get("parts", []) or []
PartsOf(msg) == Or(Get(msg.parts, List(<<>>)), List(<<>>)).v

\* entry.get("messages", [])
MessagesOf(entry) == Get(entry.messages, List(<<>>)).v

\* content if isinstance(content, str) else str(content), of part.get("content", "")
ContentText(part) ==
    LET content == Get(part.content, Str(""))
    IN  IF content.t = "str" THEN content.v ELSE PyStr(content)

\* The inner loop of the user-prompt scan over the parts of one message: the
\* first user-prompt part sets user_prompt and breaks; with none, user_prompt
\* keeps the value it had.
RECURSIVE ScanParts(_, _)
ScanParts(parts, user_prompt) ==
    IF parts = <<>>
    THEN user_prompt
    ELSE IF Get0(Head(parts).part_kind) = Str("user-prompt")
         THEN ContentText(Head(parts))
         ELSE ScanParts(Tail(parts), user_prompt)

\* The outer loop: after each message, break if user_prompt is non-empty.
RECURSIVE ScanMessages(_, _)
ScanMessages(msgs, user_prompt) ==
    IF msgs = <<>>
    THEN user_prompt
    ELSE LET up == ScanParts(PartsOf(Head(msgs)), user_prompt)
         IN  IF up # "" THEN up ELSE ScanMessages(Tail(msgs), up)

\* Returns (user_prompt, answer, instructions, references).
extract_core_fields(entry) ==
    LET instructions == Or(Get0(entry.system_prompt), Str(""))
        out == Or(Get0(entry.output), Dict(Absent, Absent))
        answer == IF out.t = "dict"
                  THEN Or(Get0(out.answer), Str(""))
                  ELSE Str(PyStr(out))
        references == IF out.t = "dict"
                      THEN Or(Get0(out.references), List(<<>>))
                      ELSE List(<<>>)
    IN  [user_prompt |-> ScanMessages(MessagesOf(entry), ""),
         answer |-> answer.v,
         instructions |-> instructions.v,
         references |-> references.v]

IsNamedToolCall(part) ==
    /\ Get0(part.part_kind) = Str("tool-call")
    /\ Truthy(Get0(part.tool_name))

RECURSIVE ToolCallsOf(_)
ToolCallsOf(msgs) ==
    IF msgs = <<>>
    THEN <<>>
    ELSE LET named == SelectSeq(PartsOf(Head(msgs)), IsNamedToolCall)
         IN  [i \in 1..Len(named) |-> named[i].tool_name] \o ToolCallsOf(Tail(msgs))

\* Return sequence of tool names in chronological order.
extract_tool_calls(entry) == ToolCallsOf(MessagesOf(entry))

(***************************************************************************)
(* Rule-based evaluation                                                   *)
(***************************************************************************)
WikiPath == "wikipedia.org/wiki"
MinGetPage == 2
MaxGetPage == 5
MinRefs == 1
MaxRefs == 5
\* The relevance threshold 0.08, as the fraction 8 / 100.
ThresholdNum == 8
ThresholdDen == 100

Max(a, b) == IF a >= b THEN a ELSE b

\* str(b) of a Python bool
BoolText(b) == IF b THEN "True" ELSE "False"

\* f"{x:.3f}" of the float n / d in [0, 1]: the nearest multiple of 1/1000,
\* a tie going to the even one, written with three decimals.
Format3f(n, d) ==
    LET twice == 2000 * n
        low == twice \div (2 * d)
        rem == twice % (2 * d)
        milli == IF rem > d \/ (rem = d /\ low % 2 = 1) THEN low + 1 ELSE low
        frac == milli % 1000
        pad == IF frac < 10 THEN "00" ELSE IF frac < 100 THEN "0" ELSE ""
    IN  ToString(milli \div 1000) \o "." \o pad \o ToString(frac)

CheckResult(log_id, check_name, passed, score, details) ==
    [log_id |-> log_id, check_name |-> check_name, passed |-> passed,
     score |-> score, details |-> details]

\* Mutant of BoolOrNone: the verdict coerced to a bool, bool(cond and x).
BoolOrNone_Coerced(cond, x) == Bool(cond /\ x)

\* x if cond else None, of a bool x
BoolOrNone(cond, x) == IF cond THEN Bool(x) ELSE None

\* Mutant of follow_instruction: the reference count has no upper bound
\* (len(references) >= 1).
follow_instruction_RefsUnbounded(log_id, answer, references, tool_calls) ==
    LET search_first == tool_calls # <<>> /\ tool_calls[1] = Str("search_wikipedia")
        num_get_page == Cardinality({i \in 1..Len(tool_calls) : tool_calls[i] = Str("get_page_raw")})
        refs_ok_count == MinRefs <= Len(references)
        refs_ok_format == \A i \in 1..Len(references) : Contains(references[i], WikiPath)
        follow_all == /\ search_first
                      /\ MinGetPage <= num_get_page /\ num_get_page <= MaxGetPage
                      /\ refs_ok_count
                      /\ refs_ok_format
    IN  CheckResult(log_id, "follow_instruction", BoolOrNone(answer # "", follow_all), None,
                    "search_first=" \o BoolText(search_first)
                    \o ", num_get_page=" \o ToString(num_get_page)
                    \o ", n_refs=" \o ToString(Len(references))
                    \o ", refs_ok_format=" \o BoolText(refs_ok_format))

follow_instruction(log_id, answer, references, tool_calls) ==
    LET search_first == tool_calls # <<>> /\ tool_calls[1] = Str("search_wikipedia")
        num_get_page == Cardinality({i \in 1..Len(tool_calls) : tool_calls[i] = Str("get_page_raw")})
        refs_ok_count == MinRefs <= Len(references) /\ Len(references) <= MaxRefs
        refs_ok_format == \A i \in 1..Len(references) : Contains(references[i], WikiPath)
        follow_all == /\ search_first
                      /\ MinGetPage <= num_get_page /\ num_get_page <= MaxGetPage
                      /\ refs_ok_count
                      /\ refs_ok_format
    IN  CheckResult(log_id, "follow_instruction", BoolOrNone(answer # "", follow_all), None,
                    "search_first=" \o BoolText(search_first)
                    \o ", num_get_page=" \o ToString(num_get_page)
                    \o ", n_refs=" \o ToString(Len(references))
                    \o ", refs_ok_format=" \o BoolText(refs_ok_format))

\* Mutant of answer_relevant: the threshold is strict (jaccard > 0.08).
answer_relevant_StrictThreshold(log_id, user_prompt, answer) ==
    LET p_tokens == Range(_tokenize(user_prompt))
        a_tokens == Range(_tokenize(answer))
        overlap == Cardinality(p_tokens \cap a_tokens)
        union == Max(1, Cardinality(p_tokens \cup a_tokens))
        both == user_prompt # "" /\ answer # ""
    IN  CheckResult(log_id, "answer_relevant",
                    BoolOrNone(both, ThresholdDen * overlap > ThresholdNum * union),
                    IF both THEN Float(overlap, union) ELSE None,
                    "token_overlap=" \o ToString(overlap)
                    \o ", jaccard=" \o Format3f(overlap, union))

\* jaccard is the double nearest to overlap / union and 0.08 the double nearest
\* to 8 / 100.  Rounding to nearest is monotonic, and a fraction of counts that
\* is not 8 / 100 is farther from it than 1 / (25 * union), far more than the
\* spacing of doubles, so jaccard >= 0.08 is decided by the integers.
answer_relevant(log_id, user_prompt, answer) ==
    LET p_tokens == Range(_tokenize(user_prompt))
        a_tokens == Range(_tokenize(answer))
        overlap == Cardinality(p_tokens \cap a_tokens)
        union == Max(1, Cardinality(p_tokens \cup a_tokens))
        both == user_prompt # "" /\ answer # ""
    IN  CheckResult(log_id, "answer_relevant",
                    BoolOrNone(both, ThresholdDen * overlap >= ThresholdNum * union),
                    IF both THEN Float(overlap, union) ELSE None,
                    "token_overlap=" \o ToString(overlap)
                    \o ", jaccard=" \o Format3f(overlap, union))

\* Mutant of has_references: the answer text is not looked at
\* (has_ref = len(references) > 0).
has_references_RefsOnly(log_id, answer, references) ==
    LET has_ref == Len(references) > 0
    IN  CheckResult(log_id, "has_references", BoolOrNone(answer # "", has_ref), None,
                    "n_refs=" \o ToString(Len(references)))

has_references(log_id, answer, references) ==
    LET has_ref == Len(references) > 0 \/ Contains(answer, WikiPath)
    IN  CheckResult(log_id, "has_references", BoolOrNone(answer # "", has_ref), None,
                    "n_refs=" \o ToString(Len(references)))

\* The three checks of one log, in their fixed order.
evaluate_entry(log_id, entry) ==
    LET f == extract_core_fields(entry)
        tool_calls == extract_tool_calls(entry)
    IN  << follow_instruction(log_id, f.answer, f.references, tool_calls),
           answer_relevant(log_id, f.user_prompt, f.answer),
           has_references(log_id, f.answer, f.references) >>

(***************************************************************************)
(* The log directory                                                       *)
(***************************************************************************)
\* The characters file names are made of, in code-point order.
CodePoints == "-.0123456789ABCDEFGHIJKLMNOPQRSTUVWXYZ_abcdefghijklmnopqrstuvwxyz"

CodePoint(c) == CHOOSE i \in 1..Len(CodePoints) : SubSeq(CodePoints, i, i) = c

\* a < b for Python strings: by the first differing character, else by length.
StrLess(a, b) ==
    LET n == IF Len(a) <= Len(b) THEN Len(a) ELSE Len(b)
        diff == {i \in 1..n : SubSeq(a, i, i) # SubSeq(b, i, i)}
    IN  IF diff = {}
        THEN Len(a) < Len(b)
        ELSE LET i == CHOOSE k \in diff : \A m \in diff : k <= m
             IN  CodePoint(SubSeq(a, i, i)) < CodePoint(SubSeq(b, i, i))

\* sorted(S) of a set of strings
RECURSIVE Sorted(_)
Sorted(S) ==
    IF S = {} THEN <<>>
    ELSE LET m == CHOOSE x \in S : \A y \in S \ {x} : StrLess(x, y)
         IN  <<m>> \o Sorted(S \ {m})

EndsWith(text, suffix) ==
    Len(text) >= Len(suffix) /\ SubSeq(text, Len(text) - Len(suffix) + 1, Len(text)) = suffix

\* A file of the directory: missing, not parseable as JSON, or a JSON log.
NoFile == [k |-> "none"]
BadJson == [k |-> "bad"]
JsonFile(e) == [k |-> "json", entry |-> e]

RECURSIVE Reverse(_)
Reverse(q) == IF q = <<>> THEN <<>> ELSE Append(Reverse(Tail(q)), Head(q))

\* Mutant of iter_log_files: list(logs_dir.glob("*.json")), in the order the
\* directory yields, here the reverse of the sorted one.
iter_log_files_Unsorted(d) ==
    Reverse(Sorted({n \in DOMAIN d : d[n] # NoFile /\ EndsWith(n, ".json")}))

\* sorted(logs_dir.glob("*.json")), by file name
iter_log_files(d) ==
    Sorted({n \in DOMAIN d : d[n] # NoFile /\ EndsWith(n, ".json")})

(***************************************************************************)
(* The store: wikiagent_logs and wikiagent_checks                          *)
(***************************************************************************)
\* SELECT id FROM wikiagent_logs WHERE filename = %s
SelectLogId(lg, filename) == {l.id : l \in {r \in lg : r.filename = filename}}

\* Mutant of DeleteChecks: the DELETE is left out.
DeleteChecks_Skipped(chk, log_id) == chk

\* Mutant of DeleteChecks: DELETE FROM wikiagent_checks, without the WHERE.
DeleteChecks_NoWhere(chk, log_id) == {}

\* DELETE FROM wikiagent_checks WHERE log_id = %s
DeleteChecks(chk, log_id) == {c \in chk : c.log_id # log_id}

\* json.dumps(entry)
JsonDumps(entry) == <<"json", entry>>

\* The row of INSERT INTO wikiagent_logs (...) VALUES (...), with the id the
\* SERIAL column draws and created_at DEFAULT now().
NewLogRow(id, now, filename, entry) ==
    LET f == extract_core_fields(entry)
    IN  [id |-> id, filename |-> filename, created_at |-> now,
         user_prompt |-> f.user_prompt, answer |-> f.answer,
         instructions |-> f.instructions, n_references |-> Len(f.references),
         raw_json |-> JsonDumps(entry)]

\* filename TEXT UNIQUE NOT NULL
UniqueFilename(lg, filename) == \A l \in lg : l.filename # filename

\* Mutant of NewCheckRow: passed is bound as bool(c.passed), None becoming False.
NewCheckRow_PassedCoerced(id, c) ==
    [id |-> id, log_id |-> c.log_id, check_name |-> c.check_name,
     passed |-> IF c.passed = None THEN Bool(FALSE) ELSE c.passed,
     score |-> c.score, details |-> c.details]

\* The row of INSERT INTO wikiagent_checks (...) VALUES (...), with the id
\* the SERIAL column draws.
NewCheckRow(id, c) ==
    [id |-> id, log_id |-> c.log_id, check_name |-> c.check_name,
     passed |-> c.passed, score |-> c.score, details |-> c.details]

\* log_id INTEGER NOT NULL REFERENCES wikiagent_logs(id)
ForeignKeyHolds(lg, row) == \E l \in lg : l.id = row.log_id

\* Mutant of InsertCheck: a schema without the REFERENCES clause, and the
\* check's own id bound in the place of log_id.
InsertCheck_NoReference(lg, chk, row) ==
    [ok |-> TRUE, checks |-> chk \cup {[row EXCEPT !.log_id = row.id]}]

\* INSERT INTO wikiagent_checks of one row: whether the store accepts the
\* statement, and the table after it.  A row that breaks the foreign key is
\* rejected and the table is unchanged.
InsertCheck(lg, chk, row) ==
    IF ForeignKeyHolds(lg, row)
    THEN [ok |-> TRUE, checks |-> chk \cup {row}]
    ELSE [ok |-> FALSE, checks |-> chk]

(***************************************************************************)
(* The inputs of the model                                                 *)
(***************************************************************************)
\* How many times main() is run.
MaxRuns == 2

JsonNames == {"a.json", "B.json"}
OtherNames == {"a.txt"}
Names == JsonNames \cup OtherNames

SearchCall == ToolCallPart(Str("search_wikipedia"))
GetPageCall == ToolCallPart(Str("get_page_raw"))
CapybaraRef == "https://en.wikipedia.org/wiki/Capybara"

\* A run that follows the instructions.
EntryA ==
    [system_prompt |-> Str("You are a careful research agent"),
     messages |-> List(<< Msg(List(<<UserPromptPart(Str("capybara habitat"))>>)),
                          Msg(List(<<SearchCall, GetPageCall, GetPageCall>>)) >>),
     output |-> Dict(Str("Capybaras live near water."), List(<<CapybaraRef>>))]
\* The same run with an empty output.
EntryB == [EntryA EXCEPT !.output = Str("")]
\* The same run with the tool calls in the wrong order and two references.
EntryC ==
    [EntryA EXCEPT !.messages = List(<< Msg(List(<<UserPromptPart(Str("capybara habitat"))>>)),
                                        Msg(List(<<GetPageCall, SearchCall, GetPageCall>>)) >>),
                   !.output = Dict(Str("The capybara habitat is near water."),
                                   List(<<CapybaraRef, CapybaraRef>>))]
Entries == {EntryA, EntryB, EntryC}

\* What each file may hold.  a.txt is no log: it is there whenever the
\* directory is.
FileContents(n) ==
    CASE n = "a.json" -> {NoFile, BadJson, JsonFile(EntryA), JsonFile(EntryB)}
      [] n = "B.json" -> {NoFile, JsonFile(EntryC)}
      [] OTHER -> {BadJson}

VARIABLES
    dirExists,   \* whether WIKIAGENT_LOGS_DIR exists
    dir,         \* the files of the directory, by name
    connections, \* how many connections the store has accepted
    schema,      \* whether the two tables exist
    logs,        \* the rows of wikiagent_logs
    checks,      \* the rows of wikiagent_checks
    logSeq,      \* the next value of wikiagent_logs.id
    checkSeq,    \* the next value of wikiagent_checks.id
    clock,       \* now()
    pc,          \* where main() is: "idle" when it is not running
    files,       \* main: files
    idx,         \* main: the position of path in files
    entry,       \* main: entry
    log_id,      \* upsert_log_and_checks: log_id
    todo,        \* upsert_log_and_checks: the checks still to insert
    out,         \* what the current run has printed
    outcome,     \* how the last run ended: "returned", "raised" or "none"
    runs,        \* how many times main() has been started
    attempts,    \* history: the files the current run has opened, in order
    pre,         \* history: the store when the current upsert started
    ingested,    \* history: per file, the entry of its last upsert if that upsert completed
    nDone,       \* history: how many upserts of the current run completed
    nRaised,     \* history: how many files of the current run raised
    gen,         \* evaluation: the drawn log
    evalOut,     \* evaluation: the checks returned for it
    fields,      \* evaluation: the fields extracted from it
    askPc,       \* where ask() is: "idle" when it is not running
    question,    \* ask: question
    result,      \* ask: what the last call returned
    llmCalls,    \* how many times agent.run_sync has been called
    csv,         \* the rows of the CSV file, <<>> while the file is missing
    savedLogs,   \* the log entries save_log has written
    console,     \* what ask() has printed
    asks,        \* how many times ask() has been called
    blocked,     \* history: the guardrail raised in the last ask
    askPre       \* history: llmCalls, csv and savedLogs when the last ask began

storeVars == <<connections, schema, logs, checks, logSeq, checkSeq>>
mainVars == <<pc, files, idx, entry, log_id, todo, out, outcome>>
histVars == <<attempts, pre, ingested, nDone, nRaised>>
evalVars == <<gen, evalOut, fields>>
askVars == <<askPc, question, result, llmCalls, csv, savedLogs, console, asks, blocked, askPre>>
vars == <<dirExists, dir, storeVars, clock, mainVars, runs, histVars, evalVars, askVars>>

Line(kind, arg) == [kind |-> kind, arg |-> arg]

NoSnapshot == [file |-> "", entry |-> None, logs |-> {}, checks |-> {}]

NoEntry == None
NoGen == [drawn |-> FALSE]
NoFields == [extracted |-> FALSE]

\* ask() has never been called.
NoResult == [returned |-> FALSE]
AskInit ==
    /\ askPc = "idle"
    /\ question = ""
    /\ result = NoResult
    /\ llmCalls = 0
    /\ csv = <<>>
    /\ savedLogs = <<>>
    /\ console = <<>>
    /\ asks = 0
    /\ blocked = FALSE
    /\ askPre = [llmCalls |-> 0, csv |-> <<>>, savedLogs |-> <<>>]

\* The store before ensure_schema has ever run, and main() not running.
StoreInit ==
    /\ connections = 0
    /\ schema = FALSE
    /\ logs = {}
    /\ checks = {}
    /\ logSeq = 1
    /\ checkSeq = 1
    /\ clock = 0

MainInit ==
    /\ pc = "idle"
    /\ files = <<>>
    /\ idx = 0
    /\ entry = NoEntry
    /\ log_id = 0
    /\ todo = <<>>
    /\ out = <<>>
    /\ outcome = "none"
    /\ runs = 0
    /\ attempts = <<>>
    /\ pre = NoSnapshot
    /\ ingested = [n \in Names |-> None]
    /\ nDone = 0
    /\ nRaised = 0

Init ==
    /\ dirExists \in BOOLEAN
    /\ dir \in [Names -> {NoFile, BadJson} \cup {JsonFile(e) : e \in Entries}]
    /\ IF dirExists
       THEN \A n \in Names : dir[n] \in FileContents(n)
       ELSE \A n \in Names : dir[n] = NoFile
    /\ StoreInit
    /\ MainInit
    /\ AskInit
    /\ gen = NoGen
    /\ evalOut = <<>>
    /\ fields = NoFields

(***************************************************************************)
(* The log directory changes between runs                                  *)
(***************************************************************************)
\* save_log, or an edit, writes or removes a file of the directory.
WriteFile ==
    /\ pc = "idle" /\ 0 < runs /\ runs < MaxRuns
    /\ dirExists
    /\ \E n \in Names : \E c \in FileContents(n) :
          /\ dir[n] # c
          /\ dir' = [dir EXCEPT ![n] = c]
    /\ UNCHANGED <<dirExists, storeVars, clock, mainVars, runs, histVars, evalVars, askVars>>

(***************************************************************************)
(* main()                                                                  *)
(***************************************************************************)
\* A run of main() starts: the history of the run is reset.
BeginRun ==
    /\ pc = "idle" /\ runs < MaxRuns
    /\ runs' = runs + 1
    /\ clock' = clock + 1
    /\ attempts' = <<>>
    /\ pre' = NoSnapshot
    /\ nDone' = 0
    /\ nRaised' = 0
    /\ UNCHANGED <<dirExists, dir, ingested, evalVars, askVars>>

\* if not logs_dir.exists(): print, return
Main_NoDir ==
    /\ BeginRun
    /\ ~dirExists
    /\ out' = <<Line("No log directory found", "")>>
    /\ outcome' = "returned"
    /\ UNCHANGED <<storeVars, pc, files, idx, entry, log_id, todo>>

\* Mutant of Main_NoFiles: the connection is opened and the schema ensured
\* before the files are listed.
Main_NoFiles_ConnectsFirst ==
    /\ BeginRun
    /\ dirExists
    /\ iter_log_files(dir) = <<>>
    /\ files' = <<>>
    /\ connections' = connections + 1
    /\ schema' = TRUE
    /\ out' = <<Line("No JSON log files found", "")>>
    /\ outcome' = "returned"
    /\ UNCHANGED <<logs, checks, logSeq, checkSeq, pc, idx, entry, log_id, todo>>

\* files = iter_log_files(logs_dir); if not files: print, return
Main_NoFiles ==
    /\ BeginRun
    /\ dirExists
    /\ iter_log_files(dir) = <<>>
    /\ files' = <<>>
    /\ out' = <<Line("No JSON log files found", "")>>
    /\ outcome' = "returned"
    /\ UNCHANGED <<storeVars, pc, idx, entry, log_id, todo>>

\* get_connection(); ensure_schema(conn); print; the loop starts
Main_Connect ==
    /\ BeginRun
    /\ dirExists
    /\ iter_log_files(dir) # <<>>
    /\ files' = iter_log_files(dir)
    /\ connections' = connections + 1
    /\ schema' = TRUE
    /\ out' = <<Line("Evaluating", ToString(Len(files')))>>
    /\ outcome' = "none"
    /\ pc' = "open"
    /\ idx' = 1
    /\ UNCHANGED <<logs, checks, logSeq, checkSeq, entry, log_id, todo>>

\* get_connection() raises (the store cannot be reached): main() raises.
Main_ConnectFails ==
    /\ BeginRun
    /\ dirExists
    /\ iter_log_files(dir) # <<>>
    /\ files' = iter_log_files(dir)
    /\ out' = <<>>
    /\ outcome' = "raised"
    /\ UNCHANGED <<storeVars, pc, idx, entry, log_id, todo>>

\* The for loop moves to the next path, or ends.
NextPath ==
    /\ idx' = idx + 1
    /\ pc' = IF idx + 1 > Len(files) THEN "close" ELSE "open"
    /\ entry' = NoEntry
    /\ log_id' = 0
    /\ todo' = <<>>

\* except Exception as e: print(f"  ERROR processing {path}: {e}")
OnException ==
    /\ out' = Append(out, Line("ERROR processing", files[idx]))
    /\ nRaised' = nRaised + 1
    /\ NextPath
    /\ UNCHANGED <<files, outcome, nDone>>

\* with path.open(...) as f: entry = json.load(f), and the call of
\* upsert_log_and_checks up to its first statement
LoadFile ==
    /\ pc = "open"
    /\ dir[files[idx]].k = "json"
    /\ entry' = dir[files[idx]].entry
    /\ pc' = "select"
    /\ attempts' = Append(attempts, files[idx])
    /\ pre' = [file |-> files[idx], entry |-> dir[files[idx]].entry,
               logs |-> logs, checks |-> checks]
    /\ UNCHANGED <<dirExists, dir, storeVars, clock, files, idx, log_id, todo, out, outcome,
                   runs, ingested, nDone, nRaised, evalVars, askVars>>

\* json.load raises on a file that is not JSON
LoadFails ==
    /\ pc = "open"
    /\ dir[files[idx]].k # "json"
    /\ attempts' = Append(attempts, files[idx])
    /\ OnException
    /\ UNCHANGED <<dirExists, dir, storeVars, clock, runs, pre, ingested, evalVars, askVars>>

\* SELECT id FROM wikiagent_logs WHERE filename = %s; row = cur.fetchone()
Select ==
    /\ pc = "select"
    /\ LET ids == SelectLogId(logs, files[idx])
       IN  IF ids # {}
           THEN /\ log_id' = CHOOSE i \in ids : TRUE
                /\ pc' = "delete"
           ELSE /\ log_id' = 0
                /\ pc' = "insert"
    /\ UNCHANGED <<dirExists, dir, storeVars, clock, files, idx, entry, todo, out, outcome,
                   runs, histVars, evalVars, askVars>>

\* Mutant of Delete: on a re-run the log row is brought up to date as well
\* (UPDATE wikiagent_logs SET ... WHERE id = %s).
Delete_RefreshesLog ==
    /\ pc = "delete"
    /\ checks' = DeleteChecks(checks, log_id)
    /\ logs' = {IF l.id = log_id
                THEN NewLogRow(l.id, l.created_at, l.filename, entry)
                ELSE l : l \in logs}
    /\ todo' = evaluate_entry(log_id, entry)
    /\ pc' = "checks"
    /\ UNCHANGED <<dirExists, dir, connections, schema, logSeq, checkSeq, clock,
                   files, idx, entry, log_id, out, outcome, runs, histVars, evalVars, askVars>>

\* if row: DELETE FROM wikiagent_checks WHERE log_id = %s; then evaluate_entry
Delete ==
    /\ pc = "delete"
    /\ checks' = DeleteChecks(checks, log_id)
    /\ todo' = evaluate_entry(log_id, entry)
    /\ pc' = "checks"
    /\ UNCHANGED <<dirExists, dir, connections, schema, logs, logSeq, checkSeq, clock,
                   files, idx, entry, log_id, out, outcome, runs, histVars, evalVars, askVars>>

\* else: INSERT INTO wikiagent_logs ... RETURNING id; then evaluate_entry
InsertLog ==
    /\ pc = "insert"
    /\ UniqueFilename(logs, files[idx])
    /\ logs' = logs \cup {NewLogRow(logSeq, clock, files[idx], entry)}
    /\ log_id' = logSeq
    /\ logSeq' = logSeq + 1
    /\ todo' = evaluate_entry(logSeq, entry)
    /\ pc' = "checks"
    /\ UNCHANGED <<dirExists, dir, connections, schema, checks, checkSeq, clock,
                   files, idx, entry, out, outcome, runs, histVars, evalVars, askVars>>

\* for c in checks: INSERT INTO wikiagent_checks ..., one statement
InsertCheckRow ==
    /\ pc = "checks"
    /\ todo # <<>>
    /\ LET res == InsertCheck(logs, checks, NewCheckRow(checkSeq, Head(todo)))
       IN  /\ res.ok
           /\ checks' = res.checks
    /\ checkSeq' = checkSeq + 1
    /\ todo' = Tail(todo)
    /\ pc' = IF Tail(todo) = <<>> THEN "report" ELSE "checks"
    /\ UNCHANGED <<dirExists, dir, connections, schema, logs, logSeq, clock,
                   files, idx, entry, log_id, out, outcome, runs, histVars, evalVars, askVars>>

\* A statement of upsert_log_and_checks raises (connectivity loss, constraint
\* violation): the statement has no effect, the ones before it are committed
\* (autocommit), and the except clause of main() reports the file.
StatementFails ==
    /\ pc \in {"select", "delete", "insert", "checks"}
    /\ OnException
    /\ ingested' = [ingested EXCEPT ![files[idx]] = None]
    /\ UNCHANGED <<dirExists, dir, storeVars, clock, runs, attempts, pre, evalVars, askVars>>

\* upsert_log_and_checks returned: print(f"  processed {path.name}")
Report ==
    /\ pc = "report"
    /\ out' = Append(out, Line("processed", files[idx]))
    /\ nDone' = nDone + 1
    /\ ingested' = [ingested EXCEPT ![files[idx]] = entry]
    /\ NextPath
    /\ UNCHANGED <<dirExists, dir, storeVars, clock, files, outcome, runs, attempts, pre,
                   nRaised, evalVars, askVars>>

\* conn.close(); print("Done.")
Close ==
    /\ pc = "close"
    /\ out' = Append(out, Line("Done.", ""))
    /\ outcome' = "returned"
    /\ pc' = "idle"
    /\ UNCHANGED <<dirExists, dir, storeVars, clock, files, idx, entry, log_id, todo,
                   runs, histVars, evalVars, askVars>>

\* The steps of the loop of main() and its end.
LoopStep ==
    \/ LoadFile
    \/ LoadFails
    \/ Select
    \/ Delete
    \/ InsertLog
    \/ InsertCheckRow
    \/ StatementFails
    \/ Report
    \/ Close

Next ==
    \/ WriteFile
    \/ Main_NoDir
    \/ Main_NoFiles
    \/ Main_Connect
    \/ Main_ConnectFails
    \/ LoopStep

Spec == Init /\ [][Next]_vars

(***************************************************************************)
(* Evaluation of one drawn log                                             *)
(***************************************************************************)
\* The largest number of get_page_raw calls and of references drawn.
MaxDrawnGets == 6
MaxDrawnRefs == 6

\* A Wikipedia URL that does not hold the wiki path.
IndexPhpRef == "https://en.wikipedia.org/w/index.php?title=Capybara"
NamelessCall == ToolCallPart(Str(""))
OtherCall == ToolCallPart(Str("final_result"))

\* The tool calls a drawn log starts with.
FirstCalls(kind) ==
    CASE kind = "none" -> <<>>
      [] kind = "search" -> <<SearchCall>>
      [] kind = "get" -> <<GetPageCall>>
      [] kind = "other" -> <<OtherCall>>
      [] kind = "nameless_search" -> <<NamelessCall, SearchCall>>

PlainAnswer == "Capybaras live near water."
WikiAnswer == "See en.wikipedia.org/wiki/Capybara."

\* A drawn value of the log: a missing key, null, or a text.
DrawnValue(kind) ==
    CASE kind = "absent" -> Absent
      [] kind = "null" -> None
      [] kind = "empty" -> Str("")
      [] kind = "prompt" -> Str("capybara habitat")
      [] kind = "plain" -> Str(PlainAnswer)
      [] kind = "wiki" -> Str(WikiAnswer)

DrawnRefs(g) ==
    CASE g.refs = "absent" -> Absent
      [] g.refs = "null" -> None
      [] g.refs = "list" ->
           List([i \in 1..g.nrefs |-> IF i = g.badAt THEN IndexPhpRef ELSE CapybaraRef])

\* The log a draw stands for.  Its parts are the user prompt (if any), the
\* first calls, the get_page_raw calls and a late search call (if any), in
\* one message or in a message each, around a message without parts.
DrawnEntry(g) ==
    LET prompt == IF g.prompt = "none" THEN <<>>
                  ELSE <<UserPromptPart(DrawnValue(g.prompt))>>
        parts == prompt \o FirstCalls(g.first) \o [i \in 1..g.gets |-> GetPageCall]
                 \o (IF g.lateSearch THEN <<SearchCall>> ELSE <<>>)
        msgs == IF g.split
                THEN <<Msg(None)>> \o [i \in 1..Len(parts) |-> Msg(List(<<parts[i]>>))]
                ELSE <<Msg(List(parts)), Msg(Absent)>>
    IN  [system_prompt |-> Absent,
         messages |-> List(msgs),
         output |-> IF g.output = "dict"
                    THEN Dict(DrawnValue(g.answer), DrawnRefs(g))
                    ELSE DrawnValue(g.output)]

\* The draws: every shape of tool calls with every shape of output.
DrawnCalls ==
    [first : {"none", "search", "get", "other", "nameless_search"},
     gets : 0..MaxDrawnGets, lateSearch : BOOLEAN, split : BOOLEAN,
     prompt : {"none", "empty", "prompt"}]

DrawnTexts == {"absent", "null", "empty", "plain", "wiki"}

DrawnOutputs ==
    [output : {"dict"}, answer : DrawnTexts, refs : {"absent", "null"}, nrefs : {0}, badAt : {0}]
    \cup {o \in [output : {"dict"}, answer : DrawnTexts, refs : {"list"},
                 nrefs : 0..MaxDrawnRefs, badAt : 0..MaxDrawnRefs] : o.badAt <= o.nrefs}
    \cup [output : DrawnTexts, answer : {"absent"}, refs : {"absent"}, nrefs : {0}, badAt : {0}]

Draw(c, o) ==
    [drawn |-> TRUE, first |-> c.first, gets |-> c.gets, lateSearch |-> c.lateSearch,
     split |-> c.split, prompt |-> c.prompt, output |-> o.output, answer |-> o.answer,
     refs |-> o.refs, nrefs |-> o.nrefs, badAt |-> o.badAt]

\* The log_id the drawn log is evaluated under.
EvalLogId == 7

EvalInit ==
    /\ gen \in {Draw(c, o) : c \in DrawnCalls, o \in DrawnOutputs}
    /\ evalOut = <<>>
    /\ fields = NoFields
    /\ dirExists = FALSE
    /\ dir = [n \in Names |-> NoFile]
    /\ StoreInit
    /\ MainInit
    /\ AskInit

\* evaluate_entry is applied to the drawn log.
Evaluate ==
    /\ evalOut = <<>>
    /\ evalOut' = evaluate_entry(EvalLogId, DrawnEntry(gen))
    /\ UNCHANGED <<dirExists, dir, storeVars, clock, mainVars, runs, histVars, gen, fields, askVars>>

EvalNext == Evaluate

EvalSpec == EvalInit /\ [][EvalNext]_vars

(***************************************************************************)
(* Relevance of one drawn prompt and answer                                *)
(***************************************************************************)
\* The largest number of tokens drawn in both texts, and in one text only.
MaxShared == 2
MaxOnly == 12

\* The words of the drawn texts.  A shared word is capitalised in the prompt
\* and not in the answer; a word of the answer holds an underscore.
SharedInPrompt(i) == "Key" \o ToString(i)
SharedInAnswer(i) == "key" \o ToString(i)
PromptWord(i) == "P" \o ToString(i)
AnswerWord(i) == "a_" \o ToString(i)

\* The words of q, each followed by sep.
RECURSIVE JoinWords(_, _)
JoinWords(q, sep) == IF q = <<>> THEN "" ELSE Head(q) \o sep \o JoinWords(Tail(q), sep)

\* The prompt of a draw: its words separated by ", ", the first one said
\* again at the end (dup), and a closing "?!" (ppad).
RelevancePrompt(g) ==
    LET words == [i \in 1..g.ponly |-> PromptWord(i)]
                 \o [i \in 1..g.shared |-> SharedInPrompt(i)]
    IN  JoinWords(words, ", ")
        \o (IF g.dup /\ words # <<>> THEN words[1] ELSE "")
        \o (IF g.ppad THEN "?!" ELSE "")

\* The answer of a draw: its words separated by "-", shared words last said
\* twice (dup), and a closing " ..." (apad).
RelevanceAnswer(g) ==
    LET shared == [i \in 1..g.shared |-> SharedInAnswer(i)]
        words == shared \o [i \in 1..g.aonly |-> AnswerWord(i)]
    IN  JoinWords(words, "-")
        \o (IF g.dup THEN JoinWords(shared, ".") ELSE "")
        \o (IF g.apad THEN " ..." ELSE "")

RelevanceEntry(g) ==
    [system_prompt |-> Absent,
     messages |-> List(<<Msg(List(<<UserPromptPart(Str(RelevancePrompt(g)))>>))>>),
     output |-> Dict(Str(RelevanceAnswer(g)), Absent)]

RelevanceDraws ==
    [family : {"relevance"}, shared : 0..MaxShared, ponly : 0..MaxOnly, aonly : 0..MaxOnly,
     dup : BOOLEAN, ppad : BOOLEAN, apad : BOOLEAN]

RelevanceInit ==
    /\ gen \in RelevanceDraws
    /\ evalOut = <<>>
    /\ fields = NoFields
    /\ dirExists = FALSE
    /\ dir = [n \in Names |-> NoFile]
    /\ StoreInit
    /\ MainInit
    /\ AskInit

\* evaluate_entry is applied to the log of the drawn prompt and answer.
EvaluateRelevance ==
    /\ evalOut = <<>>
    /\ evalOut' = evaluate_entry(EvalLogId, RelevanceEntry(gen))
    /\ UNCHANGED <<dirExists, dir, storeVars, clock, mainVars, runs, histVars, gen, fields, askVars>>

RelevanceNext == EvaluateRelevance

RelevanceSpec == RelevanceInit /\ [][RelevanceNext]_vars

(***************************************************************************)
(* Field extraction from one drawn conversation                            *)
(***************************************************************************)
\* The largest number of messages drawn, and of parts in one message.
MaxMsgs == 2
MaxParts == 2

\* The parts drawn: a tool call, or a user prompt whose content is missing,
\* null, "", one of two questions, or a number.
PartCodes == {"call", "absent", "null", "empty", "q1", "q2", "int"}
FirstQuestion == "capybara habitat"
LaterQuestion == "capybara diet"

PromptContent(code) ==
    CASE code = "absent" -> Absent
      [] code = "null" -> None
      [] code = "empty" -> Str("")
      [] code = "q1" -> Str(FirstQuestion)
      [] code = "q2" -> Str(LaterQuestion)
      [] code = "int" -> IntV(42)

DrawnPart(code) ==
    IF code = "call" THEN SearchCall ELSE UserPromptPart(PromptContent(code))

SeqsUpTo(S, n) == UNION {[1..k -> S] : k \in 0..n}

ExtractDraws == [family : {"extract"}, msgs : SeqsUpTo(SeqsUpTo(PartCodes, MaxParts), MaxMsgs)]

ExtractEntry(g) ==
    [system_prompt |-> Absent,
     messages |-> List([i \in 1..Len(g.msgs) |->
                          Msg(List([j \in 1..Len(g.msgs[i]) |-> DrawnPart(g.msgs[i][j])]))]),
     output |-> Dict(Str(PlainAnswer), Absent)]

ExtractInit ==
    /\ gen \in ExtractDraws
    /\ evalOut = <<>>
    /\ fields = NoFields
    /\ dirExists = FALSE
    /\ dir = [n \in Names |-> NoFile]
    /\ StoreInit
    /\ MainInit
    /\ AskInit

\* extract_core_fields is applied to the drawn conversation.
Extract ==
    /\ fields = NoFields
    /\ fields' = extract_core_fields(ExtractEntry(gen))
    /\ UNCHANGED <<dirExists, dir, storeVars, clock, mainVars, runs, histVars, gen, evalOut, askVars>>

ExtractNext == Extract

ExtractSpec == ExtractInit /\ [][ExtractNext]_vars

(***************************************************************************)
(* Asking the agent one question                                           *)
(***************************************************************************)
\* The largest number of calls of ask().
MaxAsks == 2

\* The questions asked: a word, alone, in a sentence, or inside a longer word.
CapybaraWords == {"capybara", "CAPYBARAS", "CapyBara"}
OtherWords == {"capibara", "capy bara", "wombat", ""}
Frames == {<<"", "">>, <<"where do ", " live?">>, <<"x", "x">>}
QuestionOf(frame, word) == frame[1] \o word \o frame[2]
AboutCapybara == {QuestionOf(f, w) : f \in Frames, w \in CapybaraWords}
Questions == {QuestionOf(f, w) : f \in Frames, w \in CapybaraWords \cup OtherWords}

GuardrailMessage ==
    "This agent only answers questions about capybaras. "
    \o "Please ask a capybara-related question."

\* Mutant of enforce_capybara_guardrail: the question is not lower-cased.
enforce_capybara_guardrail_CaseSensitive(q0) ==
    Contains(q0, "capybara") \/ Contains(q0, "capybaras")

\* TRUE when the guardrail returns, FALSE when it raises CapybaraGuardrailError.
enforce_capybara_guardrail(q0) ==
    LET q == Lower(q0)
    IN  Contains(q, "capybara") \/ Contains(q, "capybaras")

\* The WikiAnswer the agent returns.
AgentOutput == [answer |-> PlainAnswer, references |-> <<CapybaraRef, CapybaraRef>>]

\* "; ".join(references)
RECURSIVE JoinRefs(_)
JoinRefs(refs) ==
    IF refs = <<>> THEN ""
    ELSE IF Len(refs) = 1 THEN refs[1]
    ELSE refs[1] \o "; " \o JoinRefs(Tail(refs))

CsvHeader == <<"question", "answer", "references", "correct", "complete">>

\* append_row: the header first when the file is missing, then the row.
append_row(rows, q, answer, references) ==
    (IF rows = <<>> THEN <<CsvHeader>> ELSE rows)
    \o << <<q, answer, JoinRefs(references), "", "">> >>

\* ask(question) is called.
Ask_Call ==
    /\ askPc = "idle"
    /\ asks < MaxAsks
    /\ \E q \in Questions : question' = q
    /\ askPc' = "guard"
    /\ asks' = asks + 1
    /\ blocked' = FALSE
    /\ result' = NoResult
    /\ askPre' = [llmCalls |-> llmCalls, csv |-> csv, savedLogs |-> savedLogs]
    /\ UNCHANGED <<llmCalls, csv, savedLogs, console>>
    /\ UNCHANGED <<dirExists, dir, storeVars, clock, mainVars, runs, histVars, evalVars>>

\* run_sync: the guardrail returns, and the agent is to be called next.
Guardrail_Passes ==
    /\ askPc = "guard"
    /\ enforce_capybara_guardrail(question)
    /\ askPc' = "agent"
    /\ UNCHANGED <<question, result, llmCalls, csv, savedLogs, console, asks, blocked, askPre>>
    /\ UNCHANGED <<dirExists, dir, storeVars, clock, mainVars, runs, histVars, evalVars>>

\* run_sync: the guardrail raises; ask() prints the message and returns None.
Guardrail_Raises ==
    /\ askPc = "guard"
    /\ ~enforce_capybara_guardrail(question)
    /\ blocked' = TRUE
    /\ console' = Append(console, Line("[GUARDRAIL BLOCKED]", GuardrailMessage))
    /\ result' = None
    /\ askPc' = "idle"
    /\ UNCHANGED <<question, llmCalls, csv, savedLogs, asks, askPre>>
    /\ UNCHANGED <<dirExists, dir, storeVars, clock, mainVars, runs, histVars, evalVars>>

\* agent.run_sync returns a result, which ask() prints.
Agent_Returns ==
    /\ askPc = "agent"
    /\ llmCalls' = llmCalls + 1
    /\ result' = [output |-> AgentOutput]
    /\ console' = console \o <<Line("=== ANSWER ===", AgentOutput.answer)>>
                  \o [i \in 1..Len(AgentOutput.references) |->
                        Line("=== REFERENCES ===", AgentOutput.references[i])]
    /\ askPc' = "csv"
    /\ UNCHANGED <<question, csv, savedLogs, asks, blocked, askPre>>
    /\ UNCHANGED <<dirExists, dir, storeVars, clock, mainVars, runs, histVars, evalVars>>

\* agent.run_sync raises (a usage limit, the network): ask() does not catch it.
Agent_Raises ==
    /\ askPc = "agent"
    /\ llmCalls' = llmCalls + 1
    /\ result' = [raised |-> TRUE]
    /\ askPc' = "idle"
    /\ UNCHANGED <<question, csv, savedLogs, console, asks, blocked, askPre>>
    /\ UNCHANGED <<dirExists, dir, storeVars, clock, mainVars, runs, histVars, evalVars>>

\* The row of the run is appended to the CSV file.
Append_Row ==
    /\ askPc = "csv"
    /\ csv' = append_row(csv, question, result.output.answer, result.output.references)
    /\ askPc' = "log"
    /\ UNCHANGED <<question, result, llmCalls, savedLogs, console, asks, blocked, askPre>>
    /\ UNCHANGED <<dirExists, dir, storeVars, clock, mainVars, runs, histVars, evalVars>>

\* The JSON log of the run is saved, and ask() returns the result.
Save_Log ==
    /\ askPc = "log"
    /\ savedLogs' = Append(savedLogs, [question |-> question, output |-> result.output])
    /\ console' = Append(console, Line("[log] saved JSON log to", ToString(Len(savedLogs) + 1)))
    /\ askPc' = "idle"
    /\ UNCHANGED <<question, result, llmCalls, csv, asks, blocked, askPre>>
    /\ UNCHANGED <<dirExists, dir, storeVars, clock, mainVars, runs, histVars, evalVars>>

AskStoreInit ==
    /\ dirExists = FALSE
    /\ dir = [n \in Names |-> NoFile]
    /\ StoreInit
    /\ MainInit
    /\ AskInit
    /\ gen = NoGen
    /\ evalOut = <<>>
    /\ fields = NoFields

AskNext ==
    \/ Ask_Call
    \/ Guardrail_Passes
    \/ Guardrail_Raises
    \/ Agent_Returns
    \/ Agent_Raises
    \/ Append_Row
    \/ Save_Log

AskSpec == AskStoreInit /\ [][AskNext]_vars

(***************************************************************************)
(* Properties                                                              *)
(***************************************************************************)
LogsOf(lg, filename) == {l \in lg : l.filename = filename}
ChecksOf(chk, id) == {c \in chk : c.log_id = id}
\* What a check row says, without the ids the store drew.
CheckView(c) ==
    [check_name |-> c.check_name, passed |-> c.passed, score |-> c.score, details |-> c.details]
ViewOf(chk, id) == {CheckView(c) : c \in ChecksOf(chk, id)}
EvaluatedView(id, e) == {CheckView(c) : c \in Range(evaluate_entry(id, e))}
InUpsert == pc \in {"select", "delete", "insert", "checks", "report"}
RunDone == pc = "idle" /\ out # <<>> /\ out[Len(out)] = Line("Done.", "")

\* C1: when the upsert of a file has completed and the previous upsert of
\* that file completed with the same entry, the file has exactly one log row
\* and its check rows say what they said before this upsert, each once.
C1_UpsertIdempotent ==
    (pc = "report" /\ ingested[files[idx]] = entry) =>
        /\ Cardinality(LogsOf(logs, files[idx])) = 1
        /\ \A l \in LogsOf(logs, files[idx]) :
              /\ ViewOf(checks, l.id) = ViewOf(pre.checks, l.id)
              /\ Cardinality(ChecksOf(checks, l.id)) = Cardinality(ViewOf(checks, l.id))
              /\ Cardinality(ChecksOf(checks, l.id)) = Cardinality(ChecksOf(pre.checks, l.id))

C1_Witness ==
    /\ pc = "report"
    /\ ingested[files[idx]] = entry
    /\ entry = EntryA
    /\ Cardinality(ChecksOf(checks, log_id)) = 3

\* C2: when the upsert of a file that already had a log row has completed,
\* the file still has that one log row, with the id and created_at it had,
\* and its check rows are the three checks evaluated from the new entry.
C2_RerunReplacesChecksKeepsLog ==
    (pc = "report" /\ LogsOf(pre.logs, files[idx]) # {}) =>
        /\ Cardinality(LogsOf(logs, files[idx])) = 1
        /\ \A l \in LogsOf(logs, files[idx]) :
              /\ \E old \in LogsOf(pre.logs, files[idx]) :
                    l.id = old.id /\ l.created_at = old.created_at
              /\ ViewOf(checks, l.id) = EvaluatedView(l.id, entry)
              /\ Cardinality(ChecksOf(checks, l.id)) = 3

\* The entry changed since the last completed upsert, the checks changed with
\* it, and the clock has moved on since the row was created.
C2_Witness ==
    /\ pc = "report"
    /\ ingested[files[idx]] \notin {None, entry}
    /\ \E l \in LogsOf(pre.logs, files[idx]) :
          /\ l.created_at < clock
          /\ l \in logs
          /\ ViewOf(pre.checks, l.id) # ViewOf(checks, l.id)

\* C3: between upserts (main is at the head of its loop, or has ended), the
\* check rows of the file last upserted, if they were a complete set before
\* that upsert, are that previous set or the complete set of the new entry.
C3_ChecksReplacedAtomically ==
    pc \in {"idle", "open", "close"} =>
        \A l \in LogsOf(pre.logs, pre.file) :
            Cardinality(ChecksOf(pre.checks, l.id)) = 3 =>
                \/ /\ ViewOf(checks, l.id) = ViewOf(pre.checks, l.id)
                   /\ Cardinality(ChecksOf(checks, l.id)) = 3
                \/ /\ ViewOf(checks, l.id) = EvaluatedView(l.id, pre.entry)
                   /\ Cardinality(ChecksOf(checks, l.id)) = 3

\* C4: every check row has the log_id of a log row of the store.
C4_NoOrphanedChecks == \A c \in checks : \E l \in logs : l.id = c.log_id

\* An upsert has raised after some of its check rows were inserted.
C4_Witness ==
    /\ pc = "idle"
    /\ nRaised > 0
    /\ \E l \in logs : Cardinality(ChecksOf(checks, l.id)) \in {1, 2}

\* The rows of the files other than filename.
OtherRows(lg, chk, filename) ==
    [logs |-> {l \in lg : l.filename # filename},
     checks |-> {c \in chk : \A l \in LogsOf(lg, filename) : c.log_id # l.id}]

\* C5: no step of the upsert of a file, the raising of a statement included,
\* changes a log row of another file or a check row of another file's log.
C5_PerFileIsolation ==
    [][InUpsert => OtherRows(logs', checks', files[idx]) = OtherRows(logs, checks, files[idx])]_vars

\* A file is upserted again, its old checks deleted, while another file has
\* check rows.
C5_Witness ==
    /\ pc = "checks"
    /\ LogsOf(pre.logs, files[idx]) # {}
    /\ \E l \in logs : l.filename # files[idx] /\ ChecksOf(checks, l.id) # {}

\* The *.json files of the directory.
JsonFilesOf(d) == {n \in DOMAIN d : d[n] # NoFile /\ EndsWith(n, ".json")}
IsReport(line) == line.kind \in {"processed", "ERROR processing"}
ReportedFiles == LET lines == SelectSeq(out, IsReport) IN [i \in 1..Len(lines) |-> lines[i].arg]
KindCount(kind) == Cardinality({i \in 1..Len(out) : out[i].kind = kind})

\* What holds of a run of main(): in the loop, files is the list of the
\* *.json files in increasing order of name, the files opened so far are its
\* first ones, each opened once, each but the one in hand has its line
\* ("processed", or "ERROR processing" for each that raised) and the loop has a
\* file in hand or has ended; a run that has opened a file and is over has
\* opened them all and printed "Done.".
RunInOrder ==
    /\ pc # "idle" =>
          /\ Range(files) = JsonFilesOf(dir)
          /\ \A i \in 1..(Len(files) - 1) : StrLess(files[i], files[i + 1])
          /\ Len(attempts) <= Len(files)
          /\ attempts = SubSeq(files, 1, Len(attempts))
          /\ Len(attempts) = (IF InUpsert THEN idx ELSE idx - 1)
          /\ ReportedFiles = IF InUpsert THEN SubSeq(attempts, 1, Len(attempts) - 1) ELSE attempts
          /\ KindCount("ERROR processing") = nRaised
          /\ KindCount("processed") = nDone
          /\ IF pc = "close" THEN attempts = files ELSE idx \in 1..Len(files)
    /\ (pc = "idle" /\ attempts # <<>>) =>
          /\ RunDone
          /\ attempts = files
          /\ ReportedFiles = attempts
          /\ KindCount("ERROR processing") = nRaised
          /\ KindCount("processed") = nDone

\* How far the loop is: the position in files, then the place in the body.
LoopMeasure ==
    7 * idx + (CASE pc = "select" -> 1
                 [] pc \in {"delete", "insert"} -> 2
                 [] pc = "checks" -> 6 - Len(todo)
                 [] pc = "report" -> 6
                 [] OTHER -> 0)

\* C6: every step leaves the run in order (each *.json file opened once, in
\* lexicographic order of name, each file that raised reported); every step
\* of the loop, the raising of a file included, moves the loop forward, and
\* the loop is left only by the step that prints "Done.".
C6_NeverAborts ==
    [][/\ RunInOrder'
       /\ (pc # "idle" /\ pc' # "idle") => LoopMeasure' > LoopMeasure
       /\ (pc # "idle" /\ pc' = "idle") => (pc = "close" /\ RunDone')]_vars

\* A run ended after its first file raised and its second was processed.
C6_Witness ==
    /\ RunDone
    /\ Len(attempts) = 2
    /\ out[2] = Line("ERROR processing", attempts[1])
    /\ out[3] = Line("processed", attempts[2])

\* C7: when a run has printed "Done.", it has printed the number of files
\* processed and the number of files that raised.
C7_CountsReported ==
    RunDone =>
        \E i, j \in 1..Len(out) :
            /\ i # j
            /\ out[i].arg = ToString(nDone)
            /\ out[j].arg = ToString(nRaised)

\* C8: a run of main() that finds no directory, or no *.json file in it,
\* prints that one line and returns, with no connection opened, the store as
\* it was, no file opened and none reported.
C8_NothingToDo ==
    [][(pc = "idle" /\ runs' = runs + 1 /\ (~dirExists \/ JsonFilesOf(dir) = {})) =>
          /\ pc' = "idle"
          /\ outcome' = "returned"
          /\ out' \in {<<Line("No log directory found", "")>>,
                       <<Line("No JSON log files found", "")>>}
          /\ UNCHANGED storeVars
          /\ attempts' = <<>> /\ nDone' = 0 /\ nRaised' = 0]_vars

\* A run found the directory holding no log (a.txt is no log) after an earlier
\* run had filled the store.
C8_Witness ==
    /\ pc = "idle"
    /\ out = <<Line("No JSON log files found", "")>>
    /\ outcome = "returned"
    /\ dir["a.txt"] # NoFile
    /\ logs # {}

\* The extracted answer of a draw is empty: the output is missing, null or "",
\* or a dict whose answer is missing, null or "".
DrawnAnswer(g) == IF g.output = "dict" THEN g.answer ELSE g.output
DrawnAnswerEmpty(g) == DrawnAnswer(g) \in {"absent", "null", "empty"}
DrawnRefCount(g) == IF g.output = "dict" /\ g.refs = "list" THEN g.nrefs ELSE 0
\* The first call with a name is search_wikipedia.
DrawnSearchFirst(g) ==
    \/ g.first \in {"search", "nameless_search"}
    \/ g.first = "none" /\ g.gets = 0 /\ g.lateSearch
DrawnGets(g) == g.gets + (IF g.first = "get" THEN 1 ELSE 0)

\* C9: for a log whose extracted answer is empty, evaluate_entry returns
\* three checks and the passed of each is None.
C9_EmptyAnswerAllNone ==
    (evalOut # <<>> /\ DrawnAnswerEmpty(gen)) =>
        /\ Len(evalOut) = 3
        /\ \A i \in 1..3 : evalOut[i].passed = None

\* An empty answer in a log that follows every instruction and has a prompt.
C9_Witness ==
    /\ evalOut # <<>>
    /\ gen.output = "dict" /\ gen.answer = "empty"
    /\ gen.first = "search" /\ gen.gets = 2 /\ gen.refs = "list" /\ gen.nrefs = 1
    /\ gen.badAt = 0 /\ gen.prompt = "prompt"
    /\ evalOut[1].passed = None

\* C10: for a log with a non-empty answer, the passed of follow_instruction
\* is True if the first tool call is search_wikipedia, there are 2 to 5
\* get_page_raw calls, 1 to 5 references and every reference holds
\* "wikipedia.org/wiki", and False otherwise.
C10_FollowInstructionIff ==
    (evalOut # <<>> /\ ~DrawnAnswerEmpty(gen)) =>
        /\ evalOut[1].check_name = "follow_instruction"
        /\ evalOut[1].passed = Bool(/\ DrawnSearchFirst(gen)
                                    /\ DrawnGets(gen) \in 2..5
                                    /\ DrawnRefCount(gen) \in 1..5
                                    /\ gen.badAt = 0)

\* One condition alone fails (six references) and the verdict is False.
C10_Witness ==
    /\ evalOut # <<>>
    /\ ~DrawnAnswerEmpty(gen)
    /\ DrawnSearchFirst(gen) /\ DrawnGets(gen) = 5 /\ gen.badAt = 0
    /\ DrawnRefCount(gen) = 6
    /\ evalOut[1].passed = Bool(FALSE)

\* The token sets of a relevance draw, by construction: P \cap A has
\* gen.shared tokens and P \cup A the tokens of either text.
DrawnOverlap(g) == g.shared
DrawnUnion(g) == g.shared + g.ponly + g.aonly
DrawnPromptEmpty(g) == g.shared = 0 /\ g.ponly = 0 /\ ~g.ppad
DrawnReplyEmpty(g) == g.shared = 0 /\ g.aonly = 0 /\ ~g.apad

\* C11: with P and A the lower-cased word tokens of prompt and answer, when
\* both texts are non-empty the score of answer_relevant is
\* |P \cap A| / max(1, |P \cup A|) and its passed is
\* 100 * |P \cap A| >= 8 * max(1, |P \cup A|); when either text is empty both
\* are None.
C11_AnswerRelevantJaccard ==
    evalOut # <<>> =>
        /\ evalOut[2].check_name = "answer_relevant"
        /\ IF DrawnPromptEmpty(gen) \/ DrawnReplyEmpty(gen)
           THEN evalOut[2].passed = None /\ evalOut[2].score = None
           ELSE /\ evalOut[2].score = Float(DrawnOverlap(gen), Max(1, DrawnUnion(gen)))
                /\ evalOut[2].passed =
                     Bool(100 * DrawnOverlap(gen) >= 8 * Max(1, DrawnUnion(gen)))

\* Two shared tokens among twenty-five, said with duplicates and punctuation:
\* the jaccard is exactly 0.08 and the check passes.
C11_Witness ==
    /\ evalOut # <<>>
    /\ gen.shared = 2 /\ gen.ponly = 12 /\ gen.aonly = 11
    /\ gen.dup /\ gen.ppad /\ gen.apad
    /\ evalOut[2].passed = Bool(TRUE)
    /\ evalOut[2].score = Float(2, 25)

\* C12: for a log with a non-empty answer, the passed of has_references is
\* True if the reference list is non-empty or the answer holds
\* "wikipedia.org/wiki", and False otherwise; its score is None for every log.
C12_HasReferencesIff ==
    evalOut # <<>> =>
        /\ evalOut[3].check_name = "has_references"
        /\ evalOut[3].score = None
        /\ ~DrawnAnswerEmpty(gen) =>
              evalOut[3].passed = Bool(DrawnRefCount(gen) > 0 \/ DrawnAnswer(gen) = "wiki")

\* No reference list at all, and the answer text alone carries the link.
C12_Witness ==
    /\ evalOut # <<>>
    /\ gen.output = "dict" /\ gen.refs = "null" /\ gen.answer = "wiki"
    /\ evalOut[3].passed = Bool(TRUE)
    /\ evalOut[3].score = None

\* The parts of a drawn conversation in the order of the scan: message by
\* message, and part by part within a message.
RECURSIVE Flatten(_)
Flatten(msgs) == IF msgs = <<>> THEN <<>> ELSE Head(msgs) \o Flatten(Tail(msgs))
\* The content of a drawn user prompt as text.
PromptText(code) ==
    CASE code \in {"absent", "empty"} -> ""
      [] code = "null" -> "None"
      [] code = "q1" -> FirstQuestion
      [] code = "q2" -> LaterQuestion
      [] code = "int" -> "42"
FirstPromptText(g) ==
    LET prompts == SelectSeq(Flatten(g.msgs), LAMBDA c : c # "call")
    IN  IF prompts = <<>> THEN "" ELSE PromptText(prompts[1])

\* C13: the user_prompt extract_core_fields returns is the content, as text,
\* of the first user-prompt part in scan order, whatever that content is, and
\* "" when the conversation has no user-prompt part.
C13_FirstUserPrompt ==
    fields # NoFields => fields.user_prompt = FirstPromptText(gen)

\* C14: an ask whose question does not hold "capybara" in any letter case is
\* stopped by the guardrail before agent.run_sync is called: it returns None
\* and leaves the count of LLM calls, the CSV rows and the saved logs as they
\* were; the guardrail does not raise for a question that holds it.
C14_GuardrailOrdering ==
    /\ askPc = "guard" => llmCalls = askPre.llmCalls
    /\ (asks > 0 /\ askPc # "guard") =>
          IF question \in AboutCapybara
          THEN ~blocked
          ELSE /\ blocked
               /\ askPc = "idle"
               /\ result = None
               /\ llmCalls = askPre.llmCalls
               /\ csv = askPre.csv
               /\ savedLogs = askPre.savedLogs

\* After an answered question, one with "capybara" misspelt has been blocked.
C14_Witness ==
    /\ askPc = "idle"
    /\ question = "where do capibara live?"
    /\ blocked
    /\ result = None
    /\ llmCalls = 1
    /\ Len(csv) = 2
    /\ Len(savedLogs) = 1

\* C15: no step modifies or removes a row of wikiagent_logs.  A row appears
\* only by the INSERT of an upsert whose file had no row, and carries the
\* user_prompt, answer, instructions, n_references and raw_json of the entry
\* of that upsert; so whatever is ingested for the file later, the row keeps
\* the fields of the first entry ingested.
C15_LogRowNeverModified ==
    [][/\ logs \subseteq logs'
       /\ \A l \in logs' \ logs :
             /\ pc = "insert"
             /\ l.filename = files[idx]
             /\ LogsOf(logs, l.filename) = {}
             /\ LET f == extract_core_fields(entry)
                IN  /\ l.user_prompt = f.user_prompt
                    /\ l.answer = f.answer
                    /\ l.instructions = f.instructions
                    /\ l.n_references = Len(f.references)
                    /\ l.raw_json = JsonDumps(entry)]_vars

\* A file first ingested with one reference was rewritten with an empty
\* output and upserted again: its row still says one reference and holds the
\* first raw_json, while its current has_references check reports n_refs=0.
C15_Witness ==
    /\ pc = "report"
    /\ \E l \in LogsOf(logs, files[idx]) :
          /\ l.n_references = 1
          /\ l.raw_json = JsonDumps(EntryA)
          /\ entry = EntryB
          /\ \E c \in ChecksOf(checks, l.id) :
                c.check_name = "has_references" /\ c.details = "n_refs=0"

====
